---- MODULE Spec2Model ----
(***************************************************************************)
(* Model of src/app.py (SignSense hand-sign API): the geometry helper      *)
(* dist, the rule-based classifier classify_sign and the Flask handler     *)
(* api_handsign.                                                           *)
(*                                                                         *)
(* Encoding of Python values.                                              *)
(*  - A list element ("landmark") is a record                              *)
(*      [kind, name, xk, x, yk, y, other]                                  *)
(*    kind  : "None" | "int" | "dict"  (what the element is)               *)
(*    name  : value of the "name" key, "" when the key is missing          *)
(*    xk,yk : "num" | "absent" | "bad"  (numeric value, key missing,       *)
(*            value float() cannot coerce)                                 *)
(*    x,y   : the coordinate in units of 0.01 (so 0.04 is 4, 0.06 is 6)    *)
(*    other : TRUE when the dict holds further keys (z, ...)               *)
(*  - A distance (math.hypot) is irrational in general; it is represented  *)
(*    exactly by its square, and every comparison of distances is the      *)
(*    equivalent comparison of squares (real arithmetic; float rounding    *)
(*    is not modelled).                                                    *)
(*  - A confidence is given in hundredths (0.88 is 88).                    *)
(*  - Python lists are functions over 0..n-1, keeping the code's indices.  *)
(***************************************************************************)
EXTENDS Integers, FiniteSets, Sequences, TLC

VARIABLES entry, body, landmarks, pc, ret, frame, calls, response

vars == <<entry, body, landmarks, pc, ret, frame, calls, response>>

-----------------------------------------------------------------------------
(* Bounds and program constants *)

\* lists of up to MinLandmarks + MaxExtra elements are tried
MaxExtra == 1

\* len(landmarks) < 21
MinLandmarks == 21

\* the extension margin 0.04, in units of 0.01
MARGIN == 4

\* the pinch threshold 0.06, in units of 0.01
PINCH == 6

-----------------------------------------------------------------------------
(* Python values *)

NoneLm == [kind |-> "None", name |-> "", xk |-> "absent", x |-> 0,
           yk |-> "absent", y |-> 0, other |-> FALSE]

IntLm == [NoneLm EXCEPT !.kind = "int"]

EmptyDict == [NoneLm EXCEPT !.kind = "dict"]

P(px, py) == [kind |-> "dict", name |-> "", xk |-> "num", x |-> px,
              yk |-> "num", y |-> py, other |-> FALSE]

\* bool(lm): None and the empty dict are falsy
Truthy(lm) ==
    CASE lm.kind = "None" -> FALSE
      [] lm.kind = "int"  -> TRUE
      [] lm.kind = "dict" -> lm.name # "" \/ lm.xk # "absent" \/ lm.yk # "absent" \/ lm.other

\* lm.get exists: only a dict has it
HasGet(lm) == lm.kind = "dict"

\* float(a.get("x", 0.0)): the default 0.0 when the key is missing
CoordX(a) == IF a.xk = "num" THEN a.x ELSE 0

CoordY(a) == IF a.yk = "num" THEN a.y ELSE 0

\* float() raises ValueError/TypeError on a value it cannot coerce
FloatRaises(a) == a.xk = "bad" \/ a.yk = "bad"

\* dist(a, b), as the square of the distance; 0 when either is falsy
dist(a, b) ==
    IF ~Truthy(a) \/ ~Truthy(b) THEN 0
    ELSE (CoordX(a) - CoordX(b)) * (CoordX(a) - CoordX(b))
         + (CoordY(a) - CoordY(b)) * (CoordY(a) - CoordY(b))

\* dist(a, b) raises: both truthy and some coordinate is not coercible
distRaises(a, b) == Truthy(a) /\ Truthy(b) /\ (FloatRaises(a) \/ FloatRaises(b))

\* sqrt(a2) > sqrt(b2) + m, for squares a2, b2 >= 0 and m >= 0
SqrtGreater(a2, b2, m) ==
    /\ a2 - b2 - m * m > 0
    /\ (a2 - b2 - m * m) * (a2 - b2 - m * m) > 4 * m * m * b2

\* sqrt(a2) < m
SqrtLess(a2, m) == a2 < m * m

ListLen(v) == Cardinality(DOMAIN v.items)

IsList(v) == v.t = "list"

-----------------------------------------------------------------------------
(* classify_sign *)

\* the locals of classify_sign holding landmarks
Roles == {"wrist", "thumb_tip", "thumb_ip", "index_tip", "index_pip",
          "middle_tip", "middle_pip", "ring_tip", "ring_pip",
          "pinky_tip", "pinky_pip"}

\* the name each g(name, idx) call looks up
RoleName ==
    [wrist |-> "wrist",
     thumb_tip |-> "thumb_tip", thumb_ip |-> "thumb_ip",
     index_tip |-> "index_finger_tip", index_pip |-> "index_finger_pip",
     middle_tip |-> "middle_finger_tip", middle_pip |-> "middle_finger_pip",
     ring_tip |-> "ring_finger_tip", ring_pip |-> "ring_finger_pip",
     pinky_tip |-> "pinky_finger_tip", pinky_pip |-> "pinky_finger_pip"]

\* the fallback index of each g(name, idx) call
RoleIndex ==
    [wrist |-> 0,
     thumb_tip |-> 4, thumb_ip |-> 3,
     index_tip |-> 8, index_pip |-> 6,
     middle_tip |-> 12, middle_pip |-> 10,
     ring_tip |-> 16, ring_pip |-> 14,
     pinky_tip |-> 20, pinky_pip |-> 18]

FingerNames == {"thumb", "index", "middle", "ring", "pinky"}

\* the (tip, pip) locals passed to extended() for each finger
TipOf ==
    [thumb |-> "thumb_tip", index |-> "index_tip", middle |-> "middle_tip",
     ring |-> "ring_tip", pinky |-> "pinky_tip"]

PipOf ==
    [thumb |-> "thumb_ip", index |-> "index_pip", middle |-> "middle_pip",
     ring |-> "ring_pip", pinky |-> "pinky_pip"]

Returns(label, confidence, debug) ==
    [outcome |-> "return", label |-> label, confidence |-> confidence, debug |-> debug]

Raises(exc) == [outcome |-> "raise", exc |-> exc]

\* a variant of the length check that lets a list of 20 through
NotEnoughLandmarks_OffByOne(v) == ~IsList(v) \/ ListLen(v) < MinLandmarks - 1

\* not isinstance(landmarks, list) or len(landmarks) < 21
NotEnoughLandmarks(v) == ~IsList(v) \/ ListLen(v) < MinLandmarks

\* the loop filling by_name: a later landmark with the same name overwrites
\* an earlier one; a falsy name is skipped
by_name(items) ==
    LET names == {items[i].name : i \in DOMAIN items} \ {""}
        last(n) == CHOOSE i \in DOMAIN items :
                     /\ items[i].name = n
                     /\ \A j \in DOMAIN items : items[j].name = n => j <= i
    IN  [n \in names |-> items[last(n)]]

\* lm.get("name") on an element that is no dict raises AttributeError
by_nameRaises(items) == \E i \in DOMAIN items : ~HasGet(items[i])

\* a variant of g that takes the element at the index before the name
g_PositionFirst(names, v, name, idx) ==
    IF idx < ListLen(v) THEN v.items[idx]
    ELSE IF name \in DOMAIN names THEN names[name]
    ELSE NoneLm

\* by_name.get(name, landmarks[idx] if idx < len(landmarks) else None)
g(names, v, name, idx) ==
    IF name \in DOMAIN names THEN names[name]
    ELSE IF idx < ListLen(v) THEN v.items[idx]
    ELSE NoneLm

\* wrist = g("wrist", 0) ... pinky_pip = g("pinky_finger_pip", 18)
Resolve(v) ==
    LET names == by_name(v.items)
    IN  [r \in Roles |-> g(names, v, RoleName[r], RoleIndex[r])]

\* a variant of extended that compares with >= instead of >
extended_AtLeast(tip, pip, wrist) ==
    IF ~Truthy(tip) \/ ~Truthy(pip) THEN FALSE
    ELSE LET a2 == dist(tip, wrist)
             b2 == dist(pip, wrist)
         IN  /\ a2 - b2 - MARGIN * MARGIN >= 0
             /\ (a2 - b2 - MARGIN * MARGIN) * (a2 - b2 - MARGIN * MARGIN)
                  >= 4 * MARGIN * MARGIN * b2

\* a variant of extended that does not test the pip
extended_NoPipCheck(tip, pip, wrist) ==
    IF ~Truthy(tip) THEN FALSE
    ELSE SqrtGreater(dist(tip, wrist), dist(pip, wrist), MARGIN)

\* extended(tip, pip), with the wrist of the enclosing call
extended(tip, pip, wrist) ==
    IF ~Truthy(tip) \/ ~Truthy(pip) THEN FALSE
    ELSE SqrtGreater(dist(tip, wrist), dist(pip, wrist), MARGIN)

extendedRaises(tip, pip, wrist) ==
    /\ Truthy(tip) /\ Truthy(pip)
    /\ (distRaises(tip, wrist) \/ distRaises(pip, wrist))

\* the fingers dict
Fingers(role) ==
    [f \in FingerNames |-> extended(role[TipOf[f]], role[PipOf[f]], role.wrist)]

\* a variant of the count that leaves the thumb out
Count_SkipsThumb(fingers) ==
    Cardinality({f \in FingerNames \ {"thumb"} : fingers[f]})

\* count = sum(fingers.values())
Count(fingers) == Cardinality({f \in FingerNames : fingers[f]})

\* {**fingers, key: value}
Merge(fingers, extra) == extra @@ fingers

\* a variant of the sign rules that tries the pinch before every other rule
SignRules_PinchFirst(fingers, thumb_tip, index_tip, pinch_d) ==
    LET thumb == fingers["thumb"]
        index == fingers["index"]
        middle == fingers["middle"]
        ring == fingers["ring"]
        pinky == fingers["pinky"]
        count == Count(fingers)
    IN  IF Truthy(thumb_tip) /\ Truthy(index_tip) /\ SqrtLess(pinch_d, PINCH)
          THEN Returns("Pinch", 86, Merge(fingers, [pinch_distance |-> pinch_d]))
        ELSE IF pinky /\ ~thumb /\ ~index /\ ~middle /\ ~ring
          THEN Returns("Pinky", 88, Merge(fingers, [reason |-> "TOILET"]))
        ELSE IF middle /\ ~thumb /\ ~index /\ ~ring /\ ~pinky
          THEN Returns("Middle", 88, Merge(fingers, [reason |-> "ANGRY"]))
        ELSE IF ring /\ middle /\ pinky /\ ~thumb /\ ~index
          THEN Returns("Ring Pinky Middle", 90, Merge(fingers, [reason |-> "AWESOME"]))
        ELSE IF index /\ ~middle /\ ~ring /\ ~pinky
          THEN Returns("Point", 87, Merge(fingers, [reason |-> "POINT"]))
        ELSE IF index /\ middle /\ ~ring /\ ~pinky
          THEN Returns("Peace", 88, Merge(fingers, [reason |-> "PEACE"]))
        ELSE IF index /\ pinky /\ ~middle /\ ~ring
          THEN Returns("Rock", 88, Merge(fingers, [reason |-> "ROCK"]))
        ELSE IF thumb /\ count = 1
          THEN Returns("Thumbs Up", 90, Merge(fingers, [reason |-> "THUMBS_UP"]))
        ELSE IF count = 0
          THEN Returns("Fist", 85, Merge(fingers, [reason |-> "FIST"]))
        ELSE IF count = 5
          THEN Returns("Open Hand", 92, Merge(fingers, [reason |-> "OPEN_HAND"]))
        ELSE IF count = 4
          THEN Returns("Four Fingers", 82, Merge(fingers, [reason |-> "FOUR"]))
        ELSE IF count = 3
          THEN Returns("Three Fingers", 80, Merge(fingers, [reason |-> "THREE"]))
        ELSE Returns("Unknown", 30, Merge(fingers, [reason |-> "UNKNOWN"]))

\* the ordered sign rules: the first that matches returns
SignRules(fingers, thumb_tip, index_tip, pinch_d) ==
    LET thumb == fingers["thumb"]
        index == fingers["index"]
        middle == fingers["middle"]
        ring == fingers["ring"]
        pinky == fingers["pinky"]
        count == Count(fingers)
    IN  IF pinky /\ ~thumb /\ ~index /\ ~middle /\ ~ring
          THEN Returns("Pinky", 88, Merge(fingers, [reason |-> "TOILET"]))
        ELSE IF middle /\ ~thumb /\ ~index /\ ~ring /\ ~pinky
          THEN Returns("Middle", 88, Merge(fingers, [reason |-> "ANGRY"]))
        ELSE IF ring /\ middle /\ pinky /\ ~thumb /\ ~index
          THEN Returns("Ring Pinky Middle", 90, Merge(fingers, [reason |-> "AWESOME"]))
        ELSE IF Truthy(thumb_tip) /\ Truthy(index_tip) /\ SqrtLess(pinch_d, PINCH)
          THEN Returns("Pinch", 86, Merge(fingers, [pinch_distance |-> pinch_d]))
        ELSE IF index /\ ~middle /\ ~ring /\ ~pinky
          THEN Returns("Point", 87, Merge(fingers, [reason |-> "POINT"]))
        ELSE IF index /\ middle /\ ~ring /\ ~pinky
          THEN Returns("Peace", 88, Merge(fingers, [reason |-> "PEACE"]))
        ELSE IF index /\ pinky /\ ~middle /\ ~ring
          THEN Returns("Rock", 88, Merge(fingers, [reason |-> "ROCK"]))
        ELSE IF thumb /\ count = 1
          THEN Returns("Thumbs Up", 90, Merge(fingers, [reason |-> "THUMBS_UP"]))
        ELSE IF count = 0
          THEN Returns("Fist", 85, Merge(fingers, [reason |-> "FIST"]))
        ELSE IF count = 5
          THEN Returns("Open Hand", 92, Merge(fingers, [reason |-> "OPEN_HAND"]))
        ELSE IF count = 4
          THEN Returns("Four Fingers", 82, Merge(fingers, [reason |-> "FOUR"]))
        ELSE IF count = 3
          THEN Returns("Three Fingers", 80, Merge(fingers, [reason |-> "THREE"]))
        ELSE Returns("Unknown", 30, Merge(fingers, [reason |-> "UNKNOWN"]))

\* classify_sign(landmarks): the result (ret) and the locals the call
\* had assigned when it ended (frame; at = the statement it ended in)
classify_sign(v) ==
    IF NotEnoughLandmarks(v)
      THEN [ret |-> Returns("Unknown", 20, [error |-> "NOT_ENOUGH_LANDMARKS"]),
            frame |-> [at |-> "length"]]
    ELSE IF by_nameRaises(v.items)
      THEN [ret |-> Raises("AttributeError"), frame |-> [at |-> "by_name"]]
    ELSE LET role == Resolve(v) IN
      IF ~Truthy(role.wrist)
        THEN [ret |-> Returns("Unknown", 10, [error |-> "NO_WRIST"]),
              frame |-> [at |-> "wrist", role |-> role]]
      ELSE IF \E f \in FingerNames :
                extendedRaises(role[TipOf[f]], role[PipOf[f]], role.wrist)
        THEN [ret |-> Raises("ValueError"),
              frame |-> [at |-> "extended", role |-> role]]
      ELSE IF distRaises(role.thumb_tip, role.index_tip)
        THEN [ret |-> Raises("ValueError"),
              frame |-> [at |-> "pinch_d", role |-> role, fingers |-> Fingers(role)]]
      ELSE LET fingers == Fingers(role)
               pinch_d == dist(role.thumb_tip, role.index_tip)
           IN  [ret |-> SignRules(fingers, role.thumb_tip, role.index_tip, pinch_d),
                frame |-> [at |-> "rules", role |-> role, fingers |-> fingers,
                           pinch_d |-> pinch_d]]

-----------------------------------------------------------------------------
(* api_handsign *)

NoneValue == [t |-> "none", items |-> <<>>]

\* request.get_json(silent=True) or {}: None when the body does not decode,
\* and any falsy JSON value, become the empty dict; TRUE when the result
\* is a dict
DataIsDict(b) ==
    CASE b.json = "undecodable" -> TRUE
      [] b.json = "nonobject"   -> ~b.truthy
      [] b.json = "object"      -> TRUE

\* data.get("landmarks"): None when the key is missing
GetLandmarks(b) ==
    IF b.json = "object" /\ b.truthy /\ b.has_landmarks THEN b.field ELSE NoneValue

\* not isinstance(landmarks, list) or not landmarks
NoLandmarks(v) == ~IsList(v) \/ ListLen(v) = 0

NoLandmarksResponse ==
    [status |-> 200,
     json |-> [success |-> FALSE, error |-> "NO_LANDMARKS",
               message |-> "No landmarks provided."]]

SuccessResponse(r) ==
    [status |-> 200,
     json |-> [success |-> TRUE, sign |-> r.label, confidence |-> r.confidence,
               debug |-> r.debug]]

\* an exception leaving the view function: Flask answers 500
ErrorResponse(exc) == [status |-> 500, json |-> [exception |-> exc]]

-----------------------------------------------------------------------------
(* The inputs tried: hands laid out in the MediaPipe order, by name and by
   position, with and without damaged elements *)

\* the MediaPipe name of each index
CanonName ==
    [i \in 0..20 |->
       CASE i = 0 -> "wrist"
         [] i = 1 -> "thumb_cmc"          [] i = 2 -> "thumb_mcp"
         [] i = 3 -> "thumb_ip"           [] i = 4 -> "thumb_tip"
         [] i = 5 -> "index_finger_mcp"   [] i = 6 -> "index_finger_pip"
         [] i = 7 -> "index_finger_dip"   [] i = 8 -> "index_finger_tip"
         [] i = 9 -> "middle_finger_mcp"  [] i = 10 -> "middle_finger_pip"
         [] i = 11 -> "middle_finger_dip" [] i = 12 -> "middle_finger_tip"
         [] i = 13 -> "ring_finger_mcp"   [] i = 14 -> "ring_finger_pip"
         [] i = 15 -> "ring_finger_dip"   [] i = 16 -> "ring_finger_tip"
         [] i = 17 -> "pinky_finger_mcp"  [] i = 18 -> "pinky_finger_pip"
         [] i = 19 -> "pinky_finger_dip"  [] i = 20 -> "pinky_finger_tip"]

Filler == P(50, 50)

\* the poses of each finger: the wrist is at (20, 20); "curl" puts the tip
\* exactly MARGIN further from the wrist than the pip where the geometry
\* allows, "just" a hair beyond that; the "near" index poses put the index
\* tip within PINCH of the thumb tip, "edge" exactly PINCH from it
ThumbPoses == {"ext", "curl", "tip_empty"}
IndexPoses == {"far_ext", "far_curl", "near_ext", "near_curl", "edge_ext"}
MiddlePoses == {"ext", "curl", "just"}
RingPoses == {"ext", "curl"}
PinkyPoses == {"ext", "curl", "tip_empty", "pip_empty"}

Hands ==
    [thumb : ThumbPoses, index : IndexPoses, middle : MiddlePoses,
     ring : RingPoses, pinky : PinkyPoses]

\* the hands that are also tried damaged, in short lists and in requests
FewHands ==
    {h \in Hands : /\ h.index \in {"far_ext", "near_curl"}
                   /\ h.middle = "curl" /\ h.ring = "curl"
                   /\ h.pinky \in {"curl", "pip_empty"}}

\* the poses as coordinates
ThumbTip(h) ==
    CASE h.thumb = "ext" -> P(35, 20)
      [] h.thumb = "curl" -> P(34, 20)
      [] h.thumb = "tip_empty" -> EmptyDict

IndexPip(h) == IF h.index \in {"far_ext", "far_curl"} THEN P(10, 20) ELSE P(30, 23)

IndexTip(h) ==
    CASE h.index = "far_ext" -> P(5, 20)
      [] h.index = "far_curl" -> P(6, 20)
      [] h.index = "near_ext" -> P(35, 23)
      [] h.index = "near_curl" -> P(34, 23)
      [] h.index = "edge_ext" -> P(35, 26)

MiddleTip(h) ==
    CASE h.middle = "ext" -> P(20, 35)
      [] h.middle = "curl" -> P(20, 34)
      [] h.middle = "just" -> P(21, 34)

RingTip(h) == IF h.ring = "ext" THEN P(29, 32) ELSE P(28, 31)

PinkyPip(h) == IF h.pinky = "pip_empty" THEN EmptyDict ELSE P(20, 10)

PinkyTip(h) ==
    CASE h.pinky \in {"ext", "pip_empty"} -> P(20, 5)
      [] h.pinky = "curl" -> P(20, 6)
      [] h.pinky = "tip_empty" -> EmptyDict

\* the hand in canonical order, unnamed
Canon(h) ==
    [i \in 0..20 |->
       CASE i = 0 -> P(20, 20)
         [] i = 3 -> P(30, 20)
         [] i = 4 -> ThumbTip(h)
         [] i = 6 -> IndexPip(h)
         [] i = 8 -> IndexTip(h)
         [] i = 10 -> P(20, 30)
         [] i = 12 -> MiddleTip(h)
         [] i = 14 -> P(26, 28)
         [] i = 16 -> RingTip(h)
         [] i = 18 -> PinkyPip(h)
         [] i = 20 -> PinkyTip(h)
         [] OTHER -> Filler]

WithName(lm, n) == [lm EXCEPT !.name = n]

\* how the landmarks are named and ordered
Namings == {"unnamed", "named", "reversed", "wrist_moved", "wrist_twice"}

Layout(h, naming, n) ==
    LET c == Canon(h) IN
    [i \in 0..(n - 1) |->
       IF i > 20 THEN Filler
       ELSE CASE naming = "unnamed" -> c[i]
              [] naming = "named" -> WithName(c[i], CanonName[i])
              [] naming = "reversed" -> WithName(c[20 - i], CanonName[20 - i])
              [] naming = "wrist_moved" ->
                   (IF i = 0 THEN Filler
                    ELSE IF i = 1 THEN WithName(c[0], "wrist")
                    ELSE c[i])
              [] naming = "wrist_twice" ->
                   (IF i = 0 THEN Filler
                    ELSE IF i = 1 THEN WithName(Filler, "wrist")
                    ELSE IF i = 2 THEN WithName(c[0], "wrist")
                    ELSE c[i])]

\* damage done to one element
Faults == {"ok", "none0", "int0", "empty0", "z0", "none1", "bad1", "bad4"}

Damage(items, fault) ==
    LET put(i, lm) == IF i \in DOMAIN items THEN [items EXCEPT ![i] = lm] ELSE items
    IN  CASE fault = "ok" -> items
          [] fault = "none0" -> put(0, NoneLm)
          [] fault = "int0" -> put(0, IntLm)
          [] fault = "empty0" -> put(0, EmptyDict)
          [] fault = "z0" -> put(0, [EmptyDict EXCEPT !.other = TRUE])
          [] fault = "none1" -> put(1, NoneLm)
          [] fault = "bad1" ->
               (IF 1 \in DOMAIN items THEN put(1, [items[1] EXCEPT !.xk = "bad"]) ELSE items)
          [] fault = "bad4" ->
               (IF 4 \in DOMAIN items THEN put(4, [items[4] EXCEPT !.yk = "bad"]) ELSE items)

ListValue(h, naming, fault, n) ==
    [t |-> "list", items |-> Damage(Layout(h, naming, n), fault)]

\* values that are no list
NonLists == {[t |-> k, items |-> <<>>] : k \in {"none", "dict", "str", "int"}}

Lengths == MinLandmarks..(MinLandmarks + MaxExtra)

LongLists ==
    {ListValue(h, naming, "ok", n) : h \in Hands, naming \in Namings, n \in Lengths}
    \cup {ListValue(h, naming, fault, n) :
            h \in FewHands, naming \in Namings, fault \in Faults, n \in Lengths}

ShortLists ==
    {ListValue(h, naming, fault, n) :
       h \in FewHands, naming \in Namings, fault \in Faults,
       n \in {0, 1, MinLandmarks - 1}}

\* the arguments classify_sign is called with directly
CoreInputs == NonLists \cup ShortLists \cup LongLists

NoBody == [json |-> "none", truthy |-> FALSE, has_landmarks |-> FALSE, field |-> NoneValue]

\* the request bodies: not decodable, a JSON value that is no object, an
\* object without and with a "landmarks" field
Bodies ==
    {[NoBody EXCEPT !.json = "undecodable"]}
    \cup {[NoBody EXCEPT !.json = "nonobject", !.truthy = b] : b \in BOOLEAN}
    \cup {[NoBody EXCEPT !.json = "object", !.truthy = b] : b \in BOOLEAN}
    \cup {[json |-> "object", truthy |-> TRUE, has_landmarks |-> TRUE, field |-> v] :
            v \in NonLists \cup ShortLists
                  \cup {ListValue(h, naming, fault, n) :
                          h \in FewHands, naming \in Namings, fault \in Faults,
                          n \in Lengths}}

-----------------------------------------------------------------------------
(* The state machine: one call of the core, or one request *)

NoRet == [outcome |-> "none"]

NoFrame == [at |-> "none"]

NoResponse == [status |-> 0]

Unset == [t |-> "unset", items |-> <<>>]

Init ==
    /\ pc = "ready"
    /\ ret = NoRet
    /\ frame = NoFrame
    /\ calls = 0
    /\ response = NoResponse
    /\ \/ entry = "core" /\ body = NoBody /\ landmarks \in CoreInputs
       \/ entry = "api" /\ body \in Bodies /\ landmarks = Unset

\* a caller invokes classify_sign(landmarks)
ClassifySign ==
    /\ entry = "core" /\ pc = "ready"
    /\ LET r == classify_sign(landmarks) IN
         /\ ret' = r.ret
         /\ frame' = r.frame
    /\ calls' = calls + 1
    /\ pc' = "done"
    /\ UNCHANGED <<entry, body, landmarks, response>>

\* POST /api/handsign
ApiHandsign ==
    /\ entry = "api" /\ pc = "ready"
    /\ pc' = "done"
    /\ IF ~DataIsDict(body)
         THEN \* data.get on a value that is no dict
              /\ response' = ErrorResponse("AttributeError")
              /\ UNCHANGED <<landmarks, ret, frame, calls>>
       ELSE LET v == GetLandmarks(body) IN
         /\ landmarks' = v
         /\ IF NoLandmarks(v)
              THEN /\ response' = NoLandmarksResponse
                   /\ UNCHANGED <<ret, frame, calls>>
            ELSE LET r == classify_sign(v) IN
              /\ ret' = r.ret
              /\ frame' = r.frame
              /\ calls' = calls + 1
              /\ response' = IF r.ret.outcome = "raise"
                               THEN ErrorResponse(r.ret.exc)
                               ELSE SuccessResponse(r.ret)
    /\ UNCHANGED <<entry, body>>

Next == ClassifySign \/ ApiHandsign

Spec == Init /\ [][Next]_vars

-----------------------------------------------------------------------------
(* Properties *)

\* classify_sign has been called and has ended
Called == pc = "done" /\ calls = 1

\* the call ended in or after the statement that resolves the roles
Resolved == Called /\ frame.at \in {"wrist", "extended", "pinch_d", "rules"}

\* the call returned from the rule table
Ruled == Called /\ ret.outcome = "return" /\ frame.at = "rules"

LongList(v) == IsList(v) /\ ListLen(v) >= 21

\* C1: classify_sign never raises: whatever the input, the call returns a
\* (label, confidence, debug) result whose debug carries an error or a
\* reason code.
C1_NeverRaises ==
    Called =>
      /\ ret.outcome = "return"
      /\ DOMAIN ret = {"outcome", "label", "confidence", "debug"}

\* C2: an input that is no list, or a list of fewer than 21 elements, gives
\* exactly ("Unknown", 0.2, {error: NOT_ENOUGH_LANDMARKS}), whatever its
\* elements are; it never gives NO_WRIST.
C2_NotEnoughLandmarks ==
    (Called /\ (~IsList(landmarks) \/ ListLen(landmarks) < 21)) =>
      /\ ret.outcome = "return"
      /\ ret.label = "Unknown"
      /\ ret.confidence = 20
      /\ ret.debug = [error |-> "NOT_ENOUGH_LANDMARKS"]

\* a list one element short whose element 0 is None (no wrist to resolve)
\* got the NOT_ENOUGH_LANDMARKS result
C2_Witness ==
    /\ Called
    /\ IsList(landmarks) /\ ListLen(landmarks) = 20
    /\ landmarks.items[0].kind = "None"
    /\ \A i \in DOMAIN landmarks.items : landmarks.items[i].name # "wrist"
    /\ ret.outcome = "return"
    /\ ret.debug = [error |-> "NOT_ENOUGH_LANDMARKS"]

\* C3: a list of at least 21 elements, none named "wrist", whose element 0
\* is None or empty, gives ("Unknown", 0.1, {error: NO_WRIST}) and nothing
\* of the fingers.
C3_NoWrist ==
    (/\ Called
     /\ LongList(landmarks)
     /\ \A i \in DOMAIN landmarks.items : landmarks.items[i].name # "wrist"
     /\ ~Truthy(landmarks.items[0])) =>
      /\ ret.outcome = "return"
      /\ ret.label = "Unknown"
      /\ ret.confidence = 10
      /\ ret.debug = [error |-> "NO_WRIST"]

\* the rule table of the specification, rule k of 1..13, read off the
\* finger booleans f, whether thumb_tip and index_tip both resolve, and
\* the square of the pinch distance
TableMatches(k, f, tips, pinch2) ==
    LET n == Cardinality({x \in FingerNames : f[x]}) IN
    CASE k = 1 -> f["pinky"] /\ ~f["thumb"] /\ ~f["index"] /\ ~f["middle"] /\ ~f["ring"]
      [] k = 2 -> f["middle"] /\ ~f["thumb"] /\ ~f["index"] /\ ~f["ring"] /\ ~f["pinky"]
      [] k = 3 -> f["ring"] /\ f["middle"] /\ f["pinky"] /\ ~f["thumb"] /\ ~f["index"]
      [] k = 4 -> tips /\ pinch2 < 36
      [] k = 5 -> f["index"] /\ ~f["middle"] /\ ~f["ring"] /\ ~f["pinky"]
      [] k = 6 -> f["index"] /\ f["middle"] /\ ~f["ring"] /\ ~f["pinky"]
      [] k = 7 -> f["index"] /\ f["pinky"] /\ ~f["middle"] /\ ~f["ring"]
      [] k = 8 -> f["thumb"] /\ n = 1
      [] k = 9 -> n = 0
      [] k = 10 -> n = 5
      [] k = 11 -> n = 4
      [] k = 12 -> n = 3
      [] k = 13 -> TRUE

\* (label, confidence, reason) of each rule; the Pinch row names no reason
TableResult ==
    << <<"Pinky", 88, "TOILET">>, <<"Middle", 88, "ANGRY">>,
       <<"Ring Pinky Middle", 90, "AWESOME">>, <<"Pinch", 86, "">>,
       <<"Point", 87, "POINT">>, <<"Peace", 88, "PEACE">>, <<"Rock", 88, "ROCK">>,
       <<"Thumbs Up", 90, "THUMBS_UP">>, <<"Fist", 85, "FIST">>,
       <<"Open Hand", 92, "OPEN_HAND">>, <<"Four Fingers", 82, "FOUR">>,
       <<"Three Fingers", 80, "THREE">>, <<"Unknown", 30, "UNKNOWN">> >>

ReasonOf(debug) == IF "reason" \in DOMAIN debug THEN debug["reason"] ELSE ""

BothTips == Truthy(frame.role["thumb_tip"]) /\ Truthy(frame.role["index_tip"])

\* C4: past both early exits, the (label, confidence, reason) returned is
\* that of the first rule, in the order 1..13 of the table, whose predicate
\* holds: rules 1-3 win over Pinch, Pinch wins over rules 5-13.
C4_FirstRuleWins ==
    Ruled =>
      LET first == CHOOSE k \in 1..13 :
                     /\ TableMatches(k, frame.fingers, BothTips, frame.pinch_d)
                     /\ \A j \in 1..(k - 1) :
                          ~TableMatches(j, frame.fingers, BothTips, frame.pinch_d)
      IN  <<ret.label, ret.confidence, ReasonOf(ret.debug)>> = TableResult[first]

\* only the pinky is extended while both tips resolve within the pinch
\* distance: rule 1 won over Pinch
C4_Witness ==
    /\ Ruled
    /\ BothTips /\ frame.pinch_d < 36
    /\ {x \in FingerNames : frame.fingers[x]} = {"pinky"}
    /\ ret.label = "Pinky"

\* every finger's tip is at most 0.04 further from the wrist than its pip
NoTipBeyondMargin ==
    \A x \in FingerNames :
      ~SqrtGreater(dist(frame.role[TipOf[x]], frame.role["wrist"]),
                   dist(frame.role[PipOf[x]], frame.role["wrist"]), 4)

\* C5 as stated: with a resolvable wrist and every finger's tip-to-wrist
\* distance at most its pip-to-wrist distance plus 0.04, the result is
\* "Fist" with confidence 0.85.
C5_AlwaysFist ==
    (Ruled /\ NoTipBeyondMargin) => (ret.label = "Fist" /\ ret.confidence = 85)

\* C5 amended: in that case the result is "Fist" 0.85 with reason FIST,
\* unless thumb_tip and index_tip both resolve within 0.06 of each other,
\* and then it is "Pinch" 0.86.
C5_FistUnlessPinch ==
    (Ruled /\ NoTipBeyondMargin) =>
      IF BothTips /\ frame.pinch_d < 36
        THEN ret.label = "Pinch" /\ ret.confidence = 86
        ELSE ret.label = "Fist" /\ ret.confidence = 85
             /\ ReasonOf(ret.debug) = "FIST"

\* a hand with both tips resolved and apart, the thumb's tip exactly 0.04
\* further out than its pip, classified "Fist"
C5_Witness ==
    /\ Ruled /\ NoTipBeyondMargin
    /\ LongList(landmarks)
    /\ BothTips /\ frame.pinch_d >= 36
    /\ dist(frame.role["thumb_tip"], frame.role["wrist"]) = 196
    /\ dist(frame.role["thumb_ip"], frame.role["wrist"]) = 100
    /\ ret.label = "Fist" /\ ret.confidence = 85

\* the request's landmarks field is a non-empty list
HasLandmarks ==
    /\ body.json = "object" /\ body.truthy /\ body.has_landmarks
    /\ IsList(body.field) /\ ListLen(body.field) > 0

\* C6: api_handsign calls classify_sign exactly once, and wraps its result
\* as {success: true, sign, confidence, debug}, if and only if the body's
\* landmarks field is a non-empty list; every other body gets the
\* NO_LANDMARKS envelope and no call; both with status 200.
C6_Envelope ==
    (entry = "api" /\ pc = "done") =>
      IF HasLandmarks
        THEN /\ calls = 1
             /\ ret.outcome = "return"
             /\ response.status = 200
             /\ response.json = [success |-> TRUE, sign |-> ret.label,
                                 confidence |-> ret.confidence, debug |-> ret.debug]
        ELSE /\ calls = 0
             /\ response.status = 200
             /\ response.json = [success |-> FALSE, error |-> "NO_LANDMARKS",
                                 message |-> "No landmarks provided."]

\* C7: every result from the rule table carries the five finger booleans
\* as derived and a reason code, the Pinch result the pinch distance as
\* well; every early-exit result carries an error code.
C7_DebugPayload ==
    (Called /\ ret.outcome = "return") =>
      IF frame.at = "rules"
        THEN /\ \A x \in FingerNames :
                  x \in DOMAIN ret.debug /\ ret.debug[x] = frame.fingers[x]
             /\ "reason" \in DOMAIN ret.debug
             /\ ret.label = "Pinch" => "pinch_distance" \in DOMAIN ret.debug
        ELSE "error" \in DOMAIN ret.debug

\* C8: each role is the landmark carrying the role's name when some
\* landmark carries it, wherever it sits; otherwise it is the element at
\* the role's canonical index.
C8_NameBeforePosition ==
    Resolved =>
      LET canonical ==
            [wrist |-> 0, thumb_ip |-> 3, thumb_tip |-> 4, index_pip |-> 6,
             index_tip |-> 8, middle_pip |-> 10, middle_tip |-> 12,
             ring_pip |-> 14, ring_tip |-> 16, pinky_pip |-> 18, pinky_tip |-> 20]
          carriers(r) ==
            {i \in DOMAIN landmarks.items : landmarks.items[i].name = RoleName[r]}
      IN  \A r \in Roles :
            IF carriers(r) # {}
              THEN \E i \in carriers(r) : frame.role[r] = landmarks.items[i]
              ELSE frame.role[r] = landmarks.items[canonical[r]]

\* the landmark named "wrist" sits at index 20 and another landmark at
\* index 0: the named one is the wrist
C8_Witness ==
    /\ Ruled
    /\ landmarks.items[20].name = "wrist"
    /\ landmarks.items[0].name = "pinky_finger_tip"
    /\ Truthy(landmarks.items[0])
    /\ frame.role["wrist"] = landmarks.items[20]
    /\ frame.role["wrist"] # landmarks.items[0]

\* C9: a finger is extended iff its tip and pip both resolve and
\* distance(tip, wrist) > distance(pip, wrist) + 0.04; at a difference of
\* exactly 0.04 it is not extended, nor when tip or pip is absent or empty.
C9_Extended ==
    (Called /\ frame.at \in {"pinch_d", "rules"}) =>
      \A x \in FingerNames :
        LET tip == frame.role[TipOf[x]]
            pip == frame.role[PipOf[x]]
            wrist == frame.role["wrist"]
        IN  /\ frame.fingers[x] <=>
                 (/\ Truthy(tip) /\ Truthy(pip)
                  /\ SqrtGreater(dist(tip, wrist), dist(pip, wrist), 4))
            /\ (\E k \in 0..100 : /\ dist(pip, wrist) = k * k
                                  /\ dist(tip, wrist) = (k + 4) * (k + 4))
                 => ~frame.fingers[x]
            /\ (tip \in {NoneLm, EmptyDict} \/ pip \in {NoneLm, EmptyDict})
                 => ~frame.fingers[x]

\* the thumb's tip is exactly 0.04 further from the wrist than its pip and
\* the thumb is not extended; the middle finger's tip is a hair further
\* than that and it is extended; the pinky's pip is empty and it is not
C9_Witness ==
    /\ Ruled
    /\ dist(frame.role["thumb_tip"], frame.role["wrist"]) = 196
    /\ dist(frame.role["thumb_ip"], frame.role["wrist"]) = 100
    /\ ~frame.fingers["thumb"]
    /\ dist(frame.role["middle_tip"], frame.role["wrist"]) = 197
    /\ dist(frame.role["middle_pip"], frame.role["wrist"]) = 100
    /\ frame.fingers["middle"]
    /\ frame.role["pinky_pip"] = EmptyDict /\ Truthy(frame.role["pinky_tip"])
    /\ ~frame.fingers["pinky"]

\* the finger patterns left to the default rule
DefaultPatterns ==
    {{"ring"}}
    \cup {p \in SUBSET FingerNames :
            /\ Cardinality(p) = 2
            /\ p \notin {{"thumb", "index"}, {"index", "middle"}, {"index", "pinky"}}}

\* C10: the default ("Unknown", 0.30, UNKNOWN) is returned only when the
\* extended fingers are exactly {ring} or a pair other than {thumb,index},
\* {index,middle}, {index,pinky}; never with 0, 3, 4 or 5 fingers
\* extended; every other pattern gets a named gesture.
C10_DefaultOnly ==
    Ruled =>
      LET up == {x \in FingerNames : frame.fingers[x]} IN
      /\ (ret.label = "Unknown" \/ ReasonOf(ret.debug) = "UNKNOWN") =>
           /\ up \in DefaultPatterns
           /\ ret.label = "Unknown" /\ ret.confidence = 30
           /\ ReasonOf(ret.debug) = "UNKNOWN"
      /\ Cardinality(up) \in {0, 3, 4, 5} => ret.label # "Unknown"
      /\ up \notin DefaultPatterns => ret.label # "Unknown"

\* only the ring finger is extended and the default was returned
C10_Witness ==
    /\ Ruled
    /\ {x \in FingerNames : frame.fingers[x]} = {"ring"}
    /\ ret.label = "Unknown" /\ ret.confidence = 30
    /\ ret.debug["reason"] = "UNKNOWN"

====
